---- MODULE Spec2Model ----
(***************************************************************************)
(* A model of convert_to_sqlite.py: the line-oriented Dialect Rewriter     *)
(* (convert_postgres_to_sqlite), the Statement Executor (import_to_sqlite) *)
(* and the per-line substitutions they rest on.                            *)
(*                                                                         *)
(* Text is modelled as TLA+ strings.  A physical line is a string without  *)
(* its line break; whether the line break was present is carried beside it *)
(* (only the last line of a file may lack one).  A file is the sequence of *)
(* its lines.                                                              *)
(***************************************************************************)
EXTENDS Integers, Sequences, FiniteSets, TLC

VARIABLES
    \* ---- per-line substitutions, checked on their own (SpecLine)
    ln_in,                    \* the line given
    ln_out,                   \* the result of the last application
    ln_prev,                  \* the result of the application before it
    ln_pc,                    \* "new" | "renamed" | "once" | "twice"
    \* ---- convert_postgres_to_sqlite (Spec)
    pc,                       \* "rewrite" | "done" | "crashed"
    err,                      \* the exception that ended the pass, or "none"
    nread,                    \* input lines read so far
    line,                     \* the line read last, as it is in the input
    line_nl,                  \* whether that line ended with a line break
    create_table_statements,  \* the dict, as its items in insertion order
    alter_table_buffer,       \* the multi-line ALTER TABLE buffer
    out,                      \* the lines written to the output so far
    out_nl,                   \* whether the last of them is terminated
    flushed,                  \* how many of them the disk held when the
                              \* output file was last read back or closed
    \* ---- import_to_sqlite (SpecImport)
    ex_pc,                    \* "import" | "done" | "crashed"
    ex_err,                   \* the exception that ended the import
    sql_read,                 \* the lines of the SQL file read so far
    current_command,          \* the accumulation buffer
    command_count,            \* commands counted since the last rate report
    log,                      \* the calls made to cursor.execute, in order
    \* ---- convert_directory (SpecDirectory)
    listing,                  \* what os.listdir(input_dir) gave
    fi,                       \* how many of its names the loop has taken
    dir_pc,                   \* "next" | "convert" | "import" | "done" |
                              \* "crashed" ("idle" outside a batch)
    calls                     \* the calls the loop has made, in order

lnVars == <<ln_in, ln_out, ln_prev, ln_pc>>
rwVars == <<pc, err, nread, line, line_nl, create_table_statements,
            alter_table_buffer, out, out_nl, flushed>>
exVars == <<ex_pc, ex_err, sql_read, current_command, command_count, log>>
dirVars == <<listing, fi, dir_pc, calls>>
vars == <<lnVars, rwVars, exVars, dirVars>>

----------------------------------------------------------------------------
(* Strings, as Python's str methods and the regular expressions use them.  *)

WordChars ==
    {"a","b","c","d","e","f","g","h","i","j","k","l","m","n","o","p","q",
     "r","s","t","u","v","w","x","y","z",
     "A","B","C","D","E","F","G","H","I","J","K","L","M","N","O","P","Q",
     "R","S","T","U","V","W","X","Y","Z",
     "0","1","2","3","4","5","6","7","8","9","_"}

\* The character of s at position i ("" outside s).
At(s, i) == IF i >= 1 /\ i <= Len(s) THEN SubSeq(s, i, i) ELSE ""

\* \w at position i of s.
IsWordAt(s, i) == At(s, i) \in WordChars

\* Whether p occurs in s at position i.
MatchAt(s, p, i) ==
    i >= 1 /\ i + Len(p) - 1 <= Len(s) /\ SubSeq(s, i, i + Len(p) - 1) = p

StartsWith(s, p) == MatchAt(s, p, 1)

EndsWith(s, p) == MatchAt(s, p, Len(s) - Len(p) + 1)

Contains(s, p) == \E i \in 1..Len(s) : MatchAt(s, p, i)

\* The text of s from position i on.
From(s, i) == SubSeq(s, i, Len(s))

RECURSIVE LStrip(_)
LStrip(s) == IF At(s, 1) = " " THEN LStrip(From(s, 2)) ELSE s

RECURSIVE RStrip(_)
RStrip(s) == IF At(s, Len(s)) = " " THEN RStrip(SubSeq(s, 1, Len(s) - 1)) ELSE s

\* str.strip(): the line break is not part of a modelled line, blanks are.
Strip(s) == RStrip(LStrip(s))

\* The least member of a non-empty set of positions.
Least(S) == CHOOSE i \in S : \A j \in S : i <= j

\* str.find(p, i): the first position >= i at which p occurs in s, 0 if none.
Find(s, p, i) ==
    LET hits == {k \in i..Len(s) : MatchAt(s, p, k)}
    IN  IF hits = {} THEN 0 ELSE Least(hits)

\* str.replace(p, r): every occurrence of p, left to right, not overlapping.
RECURSIVE Replace(_, _, _)
Replace(s, p, r) ==
    LET k == Find(s, p, 1)
    IN  IF k = 0 THEN s
        ELSE SubSeq(s, 1, k - 1) \o r \o Replace(From(s, k + Len(p)), p, r)

\* The end of the longest run of word characters of s that starts at i
\* (i - 1 when there is none): a greedy \w+ from i.
RECURSIVE WordEnd(_, _)
WordEnd(s, i) == IF IsWordAt(s, i) THEN WordEnd(s, i + 1) ELSE i - 1

----------------------------------------------------------------------------
(* The per-line substitutions.                                             *)

\* A rename_index_column that renames every "index", whatever stands beside it.
rename_every_index(s) == Replace(s, "index", "_index")

\* (?<!\w)index(?!\w) matches at position i of s.
BareIndexAt(s, i) ==
    MatchAt(s, "index", i) /\ ~IsWordAt(s, i - 1) /\ ~IsWordAt(s, i + 5)

\* re.sub(r'(?<!\w)index(?!\w)', '_index', s), scanning from position i: the
\* lookarounds read the line as given, not the text already substituted.
RECURSIVE RenameFrom(_, _)
RenameFrom(s, i) ==
    LET hits == {k \in i..Len(s) : BareIndexAt(s, k)}
    IN  IF hits = {} THEN From(s, i)
        ELSE SubSeq(s, i, Least(hits) - 1) \o "_index"
             \o RenameFrom(s, Least(hits) + 5)

rename_index_column(s) == RenameFrom(s, 1)

\* re.sub(r'public\.', '', line)
StripSchema(s) == Replace(s, "public.", "")

\* The three type replacements and the rename, in the order of the code.
SubstituteTypes(s) ==
    rename_index_column(
        Replace(Replace(Replace(s, "SERIAL", "INTEGER PRIMARY KEY AUTOINCREMENT"),
                        "integer", "INTEGER"),
                "bigint", "INTEGER"))

\* Everything the loop does to a line before it looks at its kind.
ConvertLine(s) == SubstituteTypes(StripSchema(s))

----------------------------------------------------------------------------
(* Bounds and the inputs drawn.                                            *)

\* Lines per input file.
MaxLines == 4

\* Fragments per line given to the substitutions alone.
MaxFrags == 3

\* The fragments lines are built of: the words the substitutions look for, in
\* whole and in parts, and the characters that may stand next to them.
Frags ==
    {"index", "x", "_", "'", " ", "SERIAL", "SER", "IAL",
     "integer", "int", "eger", "big"}

RECURSIVE FragLines(_)
FragLines(n) ==
    IF n = 0 THEN {""}
    ELSE LET shorter == FragLines(n - 1)
         IN  shorter \cup {s \o f : s \in shorter, f \in Frags}

\* The lines of a PostgreSQL dump the Rewriter is run on.
InputLines ==
    {"CREATE TABLE public.t (",
     "CREATE TABLE t2 (",
     "CREATE TABLE t (id integer);",
     "CREATE TABLE \"T\" (",
     "    id SERIAL,",
     ");",
     "); -- t",
     "ALTER TABLE t ADD CONSTRAINT t_pkey PRIMARY KEY (id);",
     "ALTER TABLE public.t",
     "    ADD CONSTRAINT t_pkey PRIMARY KEY (id);",
     "ALTER TABLE t OWNER TO pg;",
     "SET search_path = public;",
     "SELECT pg_catalog.set_config('a', '', false);",
     "WITH (fillfactor=70);",
     "  OIDS=FALSE",
     "CREATE INDEX i ON t USING btree (index);"}

----------------------------------------------------------------------------
(* The substitutions on their own: a line is given, renamed or substituted, *)
(* and the result substituted again (the Rewriter run on its own output).  *)

LnIdle == ln_in = "" /\ ln_out = "" /\ ln_prev = "" /\ ln_pc = "idle"

LnInit ==
    /\ ln_in \in FragLines(MaxFrags)
    /\ ln_out = ""
    /\ ln_prev = ""
    /\ ln_pc = "new"

Rename ==
    /\ ln_pc = "new"
    /\ ln_out' = rename_index_column(ln_in)
    /\ ln_prev' = ln_in
    /\ ln_pc' = "renamed"
    /\ UNCHANGED <<ln_in, rwVars, exVars, dirVars>>

Substitute ==
    /\ ln_pc = "new"
    /\ ln_out' = SubstituteTypes(ln_in)
    /\ ln_prev' = ln_in
    /\ ln_pc' = "once"
    /\ UNCHANGED <<ln_in, rwVars, exVars, dirVars>>

SubstituteAgain ==
    /\ ln_pc = "once"
    /\ ln_out' = SubstituteTypes(ln_out)
    /\ ln_prev' = ln_out
    /\ ln_pc' = "twice"
    /\ UNCHANGED <<ln_in, rwVars, exVars, dirVars>>

----------------------------------------------------------------------------
(* convert_postgres_to_sqlite: what the loop asks of a line.               *)

\* line.startswith("SET ") or line.startswith("SELECT pg_catalog.set_config")
IsDirective(l) ==
    StartsWith(l, "SET ") \/ StartsWith(l, "SELECT pg_catalog.set_config")

\* A HasTableOption that does not know OIDS=.
HasTableOptionWithOnly(t) == Contains(t, "WITH (")

\* "WITH (" in line or "OIDS=" in line
HasTableOption(t) == Contains(t, "WITH (") \/ Contains(t, "OIDS=")

\* line.strip().startswith("CREATE TABLE")
IsCreateTable(t) == StartsWith(Strip(t), "CREATE TABLE")

\* An IsBlockEnd that takes the terminator alone.
IsBlockEndExact(t) == Strip(t) = ");"

\* line.strip().startswith(");")
IsBlockEnd(t) == StartsWith(Strip(t), ");")

\* line.strip().startswith("ALTER TABLE")
IsAlterStart(t) == StartsWith(Strip(t), "ALTER TABLE")

\* line.startswith("CREATE INDEX")
IsCreateIndex(t) == StartsWith(t, "CREATE INDEX")

\* re.search(r'CREATE TABLE (\w+)', line): where it matches, leftmost first.
CreateTableHits(t) ==
    {k \in 1..Len(t) :
        MatchAt(t, "CREATE TABLE ", k) /\ IsWordAt(t, k + Len("CREATE TABLE "))}

\* Whether the search gives a match object (None has no group).
HasTableName(t) == CreateTableHits(t) # {}

\* .group(1) of that match.
TableNameOf(t) ==
    LET k == Least(CreateTableHits(t)) + Len("CREATE TABLE ")
    IN  SubSeq(t, k, WordEnd(t, k))

\* r'ALTER TABLE (\w+) ADD CONSTRAINT \w+ PRIMARY KEY \((.*?)\)' tried at
\* position k of b: the ends of the two names, the start of the columns and
\* the first closing parenthesis after it (0 when the pattern fails at k).
AlterParts(b, k) ==
    LET n1 == k + Len("ALTER TABLE ")
        e1 == WordEnd(b, n1)
        n2 == e1 + 1 + Len(" ADD CONSTRAINT ")
        e2 == WordEnd(b, n2)
        c  == e2 + 1 + Len(" PRIMARY KEY (")
    IN  [n1 |-> n1, e1 |-> e1, e2 |-> e2, c |-> c,
         close |->
            IF /\ MatchAt(b, "ALTER TABLE ", k)
               /\ e1 >= n1
               /\ MatchAt(b, " ADD CONSTRAINT ", e1 + 1)
               /\ e2 >= n2
               /\ MatchAt(b, " PRIMARY KEY (", e2 + 1)
            THEN Find(b, ")", c)
            ELSE 0]

AlterHits(b) ==
    {k \in 1..Len(b) : MatchAt(b, "ALTER TABLE ", k) /\ AlterParts(b, k).close # 0}

\* Whether re.search gives a match.
AlterMatches(b) == AlterHits(b) # {}

\* match.groups(): the table name and the columns.
AlterTable(b) ==
    LET m == AlterParts(b, Least(AlterHits(b))) IN SubSeq(b, m.n1, m.e1)

AlterColumns(b) ==
    LET m == AlterParts(b, Least(AlterHits(b))) IN SubSeq(b, m.c, m.close - 1)

\* The converted text of each input line (lines 42-50), computed once.
Converted == [l \in InputLines |-> ConvertLine(l)]

\* What the tests of the loop answer for each input line, computed once: the
\* test of line 38 reads the line as given, the others the converted line.
Is ==
    [l \in InputLines |->
        [directive |-> IsDirective(l),
         option    |-> HasTableOption(Converted[l]),
         create    |-> IsCreateTable(Converted[l]),
         named     |-> HasTableName(Converted[l]),
         block_end |-> IsBlockEnd(Converted[l]),
         alter     |-> IsAlterStart(Converted[l]),
         semicolon |-> Contains(Converted[l], ";"),
         index     |-> IsCreateIndex(Converted[l])]]

\* The dict create_table_statements, kept as its items in insertion order.
KeyIndex(d, name) ==
    LET at == {i \in 1..Len(d) : d[i].name = name}
    IN  IF at = {} THEN 0 ELSE Least(at)

\* d[name] = lines: a key already present keeps its place in the order.
DictSet(d, name, lines) ==
    IF KeyIndex(d, name) = 0
    THEN Append(d, [name |-> name, lines |-> lines])
    ELSE [d EXCEPT ![KeyIndex(d, name)].lines = lines]

\* d[list(d.keys())[-1]].append(t)
AppendToLast(d, t) == [d EXCEPT ![Len(d)].lines = Append(@, t)]

\* del d[list(d.keys())[-1]]
DelLast(d) == SubSeq(d, 1, Len(d) - 1)

----------------------------------------------------------------------------
(* convert_postgres_to_sqlite: the pass over one input file.               *)

RwIdle ==
    /\ pc = "idle" /\ err = "none" /\ nread = 0 /\ line = "" /\ line_nl = TRUE
    /\ create_table_statements = <<>> /\ alter_table_buffer = ""
    /\ out = <<>> /\ out_nl = TRUE /\ flushed = 0

\* The state at the top of the loop: both files open, nothing read.
RwInit ==
    /\ pc = "rewrite" /\ err = "none" /\ nread = 0 /\ line = "" /\ line_nl = TRUE
    /\ create_table_statements = <<>> /\ alter_table_buffer = ""
    /\ out = <<>> /\ out_nl = TRUE /\ flushed = 0

\* for line in infile: the next line l of the input, with its line break or,
\* for the last line of a file only, without.
Read(l, nl) ==
    /\ pc = "rewrite"
    /\ nread < MaxLines
    /\ nread > 0 => line_nl
    /\ nread' = nread + 1
    /\ line' = l
    /\ line_nl' = nl

\* outfile.write: the lines join the output.  outfile is buffered: how much
\* of the output is on the disk shows only when the file is read back.
Write(ls, nl) ==
    /\ out' = out \o ls
    /\ out_nl' = nl
    /\ UNCHANGED flushed

\* The with block is left by an exception: outfile is closed, and what it
\* had buffered reaches the disk.
Raise(e) ==
    /\ pc' = "crashed"
    /\ err' = e

\* Lines 38-39: a PostgreSQL-specific command is skipped.
SkipDirective(l, nl) ==
    /\ Read(l, nl)
    /\ Is[l].directive
    /\ UNCHANGED <<pc, err, create_table_statements, alter_table_buffer,
                   out, out_nl, flushed, lnVars, exVars, dirVars>>

\* Lines 53-54: a line with a PostgreSQL-specific table option is skipped.
SkipTableOption(l, nl) ==
    /\ Read(l, nl)
    /\ ~Is[l].directive
    /\ Is[l].option
    /\ UNCHANGED <<pc, err, create_table_statements, alter_table_buffer,
                   out, out_nl, flushed, lnVars, exVars, dirVars>>

\* The line reaches the statement handling (line 56 on).
Handled(l, nl) ==
    /\ Read(l, nl)
    /\ ~Is[l].directive
    /\ ~Is[l].option

\* Lines 57-60: a CREATE TABLE line opens a block under its table name; the
\* search for the name may give None, and None.group raises AttributeError.
OpenTable(l, nl) ==
    LET t == Converted[l] IN
    /\ Handled(l, nl)
    /\ Is[l].create
    /\ IF Is[l].named
       THEN /\ create_table_statements' =
                   DictSet(create_table_statements, TableNameOf(t), <<t>>)
            /\ UNCHANGED <<pc, err, flushed>>
       ELSE /\ Raise("AttributeError")
            /\ flushed' = Len(out)
            /\ UNCHANGED create_table_statements
    /\ UNCHANGED <<alter_table_buffer, out, out_nl, lnVars, exVars, dirVars>>

\* Lines 62-68: a line that starts with ");" closes the block of the last key
\* and writes the block.
CloseTable(l, nl) ==
    LET t == Converted[l] IN
    /\ Handled(l, nl)
    /\ ~Is[l].create
    /\ Is[l].block_end /\ create_table_statements # <<>>
    /\ Write(Append(create_table_statements[Len(create_table_statements)].lines, t),
             nl)
    /\ create_table_statements' = DelLast(create_table_statements)
    /\ UNCHANGED <<pc, err, alter_table_buffer, lnVars, exVars, dirVars>>

\* An AppendToTable that gives a line starting ALTER TABLE to the ALTER TABLE
\* buffer, as if that test came before the test for an open block.
AppendToTableAlterFirst(l, nl) ==
    LET t == Converted[l] IN
    /\ Handled(l, nl)
    /\ ~Is[l].create
    /\ ~Is[l].block_end /\ create_table_statements # <<>>
    /\ IF Is[l].alter
       THEN /\ alter_table_buffer' =
                   (IF alter_table_buffer # ""
                    THEN alter_table_buffer \o " " \o Strip(t)
                    ELSE Strip(t))
            /\ UNCHANGED create_table_statements
       ELSE /\ create_table_statements' = AppendToLast(create_table_statements, t)
            /\ UNCHANGED alter_table_buffer
    /\ UNCHANGED <<pc, err, out, out_nl, flushed, lnVars, exVars, dirVars>>

\* Lines 70-74: while a block is open the line joins the block of the last key.
AppendToTable(l, nl) ==
    LET t == Converted[l] IN
    /\ Handled(l, nl)
    /\ ~Is[l].create
    /\ ~Is[l].block_end /\ create_table_statements # <<>>
    /\ create_table_statements' = AppendToLast(create_table_statements, t)
    /\ UNCHANGED <<pc, err, alter_table_buffer, out, out_nl, flushed,
                   lnVars, exVars, dirVars>>

\* The line is past the CREATE TABLE handling (line 76 on).
PastTables(l, nl) ==
    /\ Handled(l, nl)
    /\ ~Is[l].create
    /\ create_table_statements = <<>>

\* A Joined that does not trim the line.
JoinedUntrimmed(buf, t) == IF buf # "" THEN buf \o " " \o t ELSE t

\* Lines 78-81: the buffer with the line joined to it.
Joined(buf, t) == IF buf # "" THEN buf \o " " \o Strip(t) ELSE Strip(t)

\* Lines 92-102 on the lines read back from the disk: the first line at which
\* the while loop is entered, where next(lines), lines being a list, raises
\* TypeError (0 when the loop is entered nowhere and every line is written
\* back as it was).
PatchRaisesAt(lines, name) ==
    LET at == {i \in 1..Len(lines) :
                  /\ StartsWith(Strip(lines[i]), "CREATE TABLE " \o name)
                  /\ ~EndsWith(Strip(lines[i]), ");")}
    IN  IF at = {} THEN 0 ELSE Least(at)

\* The bytes a file keeps where nothing was written below a later write.
NulGap == "<NUL>"

\* The output file after the patch raised at line k of the f lines on the
\* disk: the rewrite had truncated the file and written k lines, and outfile,
\* closed on the way out, writes what it had buffered at its own offset.
AfterRaise(k, f) ==
    LET tail == SubSeq(out, f + 1, Len(out))
    IN  SubSeq(out, 1, k) \o
        (IF k < f /\ tail # <<>>
         THEN <<NulGap \o Head(tail)>> \o Tail(tail)
         ELSE tail)

\* Lines 77-82, 104: the line joins the ALTER TABLE buffer and holds no ";".
AlterAccumulate(l, nl) ==
    LET t == Converted[l] IN
    /\ PastTables(l, nl)
    /\ Is[l].alter \/ alter_table_buffer # ""
    /\ ~Is[l].semicolon
    /\ alter_table_buffer' = Joined(alter_table_buffer, t)
    /\ UNCHANGED <<pc, err, create_table_statements, out, out_nl, flushed,
                   lnVars, exVars, dirVars>>

\* Lines 83-85, 103: the statement is complete and is no PRIMARY KEY
\* constraint: the buffer is cleared.
AlterDiscard(l, nl) ==
    LET t == Converted[l] IN
    /\ PastTables(l, nl)
    /\ Is[l].alter \/ alter_table_buffer # ""
    /\ Is[l].semicolon
    /\ ~AlterMatches(Joined(alter_table_buffer, t))
    /\ alter_table_buffer' = ""
    /\ UNCHANGED <<pc, err, create_table_statements, out, out_nl, flushed,
                   lnVars, exVars, dirVars>>

\* Lines 83-103: the statement is a PRIMARY KEY constraint: the output file is
\* read back from the disk and rewritten.  The disk holds f lines: any prefix
\* of the output, outfile being buffered, that is no shorter than the disk was
\* seen to hold before.
PatchBack(l, nl) ==
    LET buf == Joined(alter_table_buffer, Converted[l]) IN
    /\ PastTables(l, nl)
    /\ Is[l].alter \/ alter_table_buffer # ""
    /\ Is[l].semicolon
    /\ AlterMatches(buf)
    /\ \E f \in flushed..Len(out) :
          LET k == PatchRaisesAt(SubSeq(out, 1, f), AlterTable(buf)) IN
          IF k = 0
          THEN /\ alter_table_buffer' = ""
               /\ flushed' = f
               /\ UNCHANGED <<pc, err, out>>
          ELSE /\ Raise("TypeError")
               /\ alter_table_buffer' = buf
               /\ out' = AfterRaise(k, f)
               /\ flushed' = Len(AfterRaise(k, f))
    /\ UNCHANGED <<create_table_statements, out_nl, lnVars, exVars, dirVars>>

\* The line is past the ALTER TABLE handling (line 106 on).
PastAlter(l, nl) ==
    /\ PastTables(l, nl)
    /\ ~Is[l].alter
    /\ alter_table_buffer = ""

\* A CreateIndexText that writes the line alone.
CreateIndexTextAlone(t, nl) == <<t>>

\* Line 110, outfile.write(f"{line}\n"): the line, and the empty line that the
\* added line break makes after a line that ended with its own.
CreateIndexText(t, nl) == IF nl THEN <<t, "">> ELSE <<t>>

\* Lines 107-111: a CREATE INDEX line is written without " USING btree" and
\* with a line break after it.
CreateIndex(l, nl) ==
    /\ PastAlter(l, nl)
    /\ Is[l].index
    /\ Write(CreateIndexText(Replace(Converted[l], " USING btree", ""), nl), TRUE)
    /\ UNCHANGED <<pc, err, create_table_statements, alter_table_buffer,
                   lnVars, exVars, dirVars>>

\* Line 114: any other line is written as converted.
WriteLine(l, nl) ==
    /\ PastAlter(l, nl)
    /\ ~Is[l].index
    /\ Write(<<Converted[l]>>, nl)
    /\ UNCHANGED <<pc, err, create_table_statements, alter_table_buffer,
                   lnVars, exVars, dirVars>>

\* The input is at its end: the with block closes both files.
EndOfFile ==
    /\ pc = "rewrite"
    /\ pc' = "done"
    /\ flushed' = Len(out)
    /\ UNCHANGED <<err, nread, line, line_nl, create_table_statements,
                   alter_table_buffer, out, out_nl, lnVars, exVars, dirVars>>

\* The loop body (lines 36-114) for the next line of the input.
RwLine ==
    \E l \in InputLines, nl \in BOOLEAN :
       \/ SkipDirective(l, nl)
       \/ SkipTableOption(l, nl)
       \/ OpenTable(l, nl)
       \/ CloseTable(l, nl)
       \/ AppendToTable(l, nl)
       \/ AlterAccumulate(l, nl)
       \/ AlterDiscard(l, nl)
       \/ PatchBack(l, nl)
       \/ CreateIndex(l, nl)
       \/ WriteLine(l, nl)

RwNext == RwLine \/ EndOfFile

----------------------------------------------------------------------------
(* import_to_sqlite: the pass over one SQL file.                           *)

\* Lines per SQL file.
MaxSqlLines == 4

\* The lines of a rewritten SQL file the Executor is run on.
SqlLines ==
    {"CREATE TABLE t (",
     "    id INTEGER",
     ");",
     "INSERT INTO t VALUES (1);",
     "UPDATE t SET id = 2;",
     "CREATE INDEX i ON t (id);",
     "",
     "-- a comment",
     "/* a comment */"}

\* command_keywords
CommandKeywords == {"CREATE TABLE", "INSERT INTO", "ADD CONSTRAINT", "CREATE INDEX"}

\* any(line.startswith(keyword) for keyword in command_keywords)
IsCommandStart(s) == \E kw \in CommandKeywords : StartsWith(s, kw)

\* not line or line.startswith('--') or line.startswith('/*')
IsSkipped(s) == s = "" \/ StartsWith(s, "--") \/ StartsWith(s, "/*")

\* Whether text follows a ";" of the command: sqlite3 executes one statement
\* at a time.
MultiStatement(cmd) ==
    \E i \in 1..Len(cmd) : At(cmd, i) = ";" /\ Strip(From(cmd, i + 1)) # ""

\* Whether the command changes rows, which a constraint may forbid.
ChangesRows(cmd) == StartsWith(cmd, "INSERT INTO") \/ StartsWith(cmd, "UPDATE")

\* What cursor.execute(cmd) may answer: success; a sqlite3.OperationalError
\* (no such table, a table that exists already, a syntax error); for a
\* command that changes rows a sqlite3.IntegrityError (a duplicate primary
\* key); and for more than one statement always a ProgrammingError.
StoreOutcomes(cmd) ==
    IF MultiStatement(cmd) THEN {"ProgrammingError"}
    ELSE IF ChangesRows(cmd) THEN {"ok", "OperationalError", "IntegrityError"}
    ELSE {"ok", "OperationalError"}

\* except sqlite3.OperationalError: the only exception the try blocks catch.
IsCaught(res) == res = "OperationalError"

\* The executor's state as a record, for the steps within one line.
ExState ==
    [cmd |-> current_command, count |-> command_count, log |-> log,
     pc |-> ex_pc, err |-> ex_err]

\* try: cursor.execute(st.cmd); command_count += 1 / except OperationalError:
\* print / current_command = "": with the store answering res.
Executed(st, res) ==
    LET logged == Append(st.log, [cmd |-> st.cmd, res |-> res])
    IN  IF res = "ok"
        THEN [st EXCEPT !.log = logged, !.count = @ + 1, !.cmd = ""]
        ELSE IF IsCaught(res)
        THEN [st EXCEPT !.log = logged, !.cmd = ""]
        ELSE [st EXCEPT !.log = logged, !.pc = "crashed", !.err = res]

\* Lines 148-155: a line that starts a command has the buffered one executed.
AfterKeyword(st, s, res) ==
    IF IsCommandStart(s) /\ st.cmd # "" THEN Executed(st, res) ELSE st

\* An AfterAppend that joins the line with no blank after it.
AfterAppendBare(st, s) ==
    IF st.pc = "crashed" THEN st ELSE [st EXCEPT !.cmd = @ \o s]

\* Line 158: the line joins the buffer, a blank after it.
AfterAppend(st, s) ==
    IF st.pc = "crashed" THEN st ELSE [st EXCEPT !.cmd = @ \o s \o " "]

\* Lines 161-167: a buffer that ends with ";" is executed.
AfterTerminator(st, res) ==
    IF st.pc # "crashed" /\ EndsWith(st.cmd, ";") THEN Executed(st, res) ELSE st

\* Lines 170-173: a second has passed or not; if so the count starts again.
AfterTimer(st, tick) ==
    IF st.pc # "crashed" /\ tick THEN [st EXCEPT !.count = 0] ELSE st

\* The loop body for a line that is not skipped, the store answering r1 to
\* the keyword's execute and r2 to the terminator's.
LineDone(s, r1, r2, tick) ==
    AfterTimer(AfterTerminator(AfterAppend(AfterKeyword(ExState, s, r1), s), r2),
               tick)

ExIdle ==
    /\ ex_pc = "idle" /\ ex_err = "none" /\ sql_read = <<>>
    /\ current_command = "" /\ command_count = 0 /\ log = <<>>

\* The state at the top of the loop: connected, the file open.
ExInit ==
    /\ ex_pc = "import" /\ ex_err = "none" /\ sql_read = <<>>
    /\ current_command = "" /\ command_count = 0 /\ log = <<>>

\* for line in f: the next line of the SQL file.
ReadSql(l) ==
    /\ ex_pc = "import"
    /\ Len(sql_read) < MaxSqlLines
    /\ sql_read' = Append(sql_read, l)

SetExState(st) ==
    /\ current_command' = st.cmd
    /\ command_count' = st.count
    /\ log' = st.log
    /\ ex_pc' = st.pc
    /\ ex_err' = st.err

\* Lines 143-145: an empty line or a comment is skipped.
SkipSqlLine(l) ==
    /\ ReadSql(l)
    /\ IsSkipped(Strip(l))
    /\ UNCHANGED <<ex_pc, ex_err, current_command, command_count, log,
                   lnVars, rwVars, dirVars>>

\* Lines 147-173 for a line that starts a command while the buffer holds one.
FlushAndAccumulate(l, tick) ==
    LET s == Strip(l) IN
    /\ ReadSql(l)
    /\ ~IsSkipped(s)
    /\ IsCommandStart(s) /\ current_command # ""
    /\ \E r1 \in StoreOutcomes(current_command),
          r2 \in StoreOutcomes(s \o " ") :
          SetExState(LineDone(s, r1, r2, tick))
    /\ UNCHANGED <<lnVars, rwVars, dirVars>>

\* Lines 147-173 for any other line.
Accumulate(l, tick) ==
    LET s == Strip(l) IN
    /\ ReadSql(l)
    /\ ~IsSkipped(s)
    /\ ~(IsCommandStart(s) /\ current_command # "")
    /\ \E r2 \in StoreOutcomes(current_command \o s \o " ") :
          SetExState(LineDone(s, "ok", r2, tick))
    /\ UNCHANGED <<lnVars, rwVars, dirVars>>

\* Lines 175-178: the file is at its end: commit and close.
ImportEnd ==
    /\ ex_pc = "import"
    /\ ex_pc' = "done"
    /\ UNCHANGED <<ex_err, sql_read, current_command, command_count, log,
                   lnVars, rwVars, dirVars>>

\* The loop body (lines 142-173) for the line l of the SQL file.
ExLine(l) ==
    \E tick \in BOOLEAN :
       \/ SkipSqlLine(l)
       \/ FlushAndAccumulate(l, tick)
       \/ Accumulate(l, tick)

ExNext == (\E l \in SqlLines : ExLine(l)) \/ ImportEnd

----------------------------------------------------------------------------
(* convert_directory: the loop over the files of the input directory.      *)

\* Names os.listdir gives at most.
MaxFiles == 2

\* Lines per input file in a batch.
MaxFileLines == 2

\* The names a directory may hold.
FileNames == {"a.sql", "b.sql", "notes.txt"}

\* A directory holds a name once: the listings of at most n names.
RECURSIVE Listings(_)
Listings(n) ==
    IF n = 0 THEN {<<>>}
    ELSE LET shorter == Listings(n - 1)
         IN  shorter \cup
             {Append(ls, f) : ls \in {x \in shorter : Len(x) = n - 1},
                              f \in FileNames}

NoRepeat(ls) == \A i, j \in 1..Len(ls) : ls[i] = ls[j] => i = j

DirIdle == listing = <<>> /\ fi = 0 /\ dir_pc = "idle" /\ calls = <<>>

\* Line 192: the directory is listed and nothing is taken yet.
DirInit ==
    /\ listing \in {ls \in Listings(MaxFiles) : NoRepeat(ls)}
    /\ fi = 0 /\ dir_pc = "next" /\ calls = <<>>

\* for filename in os.listdir(input_dir): the next name of the listing.
TakeFile ==
    /\ dir_pc = "next"
    /\ fi < Len(listing)
    /\ fi' = fi + 1

\* filename.endswith('.sql')
IsSqlFile(name) == EndsWith(name, ".sql")

Called(op) == calls' = Append(calls, [op |-> op, file |-> listing[fi']])

\* Line 193: a name that does not end with .sql is passed over.
SkipFile ==
    /\ TakeFile
    /\ ~IsSqlFile(listing[fi'])
    /\ UNCHANGED <<listing, dir_pc, calls, lnVars, rwVars, exVars>>

\* A CallConvert for buffers that outlive the call: the table blocks and the
\* ALTER TABLE buffer are as the pass before left them.
CallConvertKeepsBuffers ==
    /\ TakeFile
    /\ IsSqlFile(listing[fi'])
    /\ dir_pc' = "convert"
    /\ Called("convert")
    /\ pc' = "rewrite" /\ err' = "none" /\ nread' = 0
    /\ line' = "" /\ line_nl' = TRUE
    /\ out' = <<>> /\ out_nl' = TRUE /\ flushed' = 0
    /\ UNCHANGED <<create_table_statements, alter_table_buffer,
                   listing, lnVars, exVars>>

\* Lines 194-196, 32-35: convert_postgres_to_sqlite is called on the file: its
\* buffers are made anew, whatever the pass before left, and the output file
\* is opened empty.
CallConvert ==
    /\ TakeFile
    /\ IsSqlFile(listing[fi'])
    /\ dir_pc' = "convert"
    /\ Called("convert")
    /\ pc' = "rewrite" /\ err' = "none" /\ nread' = 0
    /\ line' = "" /\ line_nl' = TRUE
    /\ create_table_statements' = <<>> /\ alter_table_buffer' = ""
    /\ out' = <<>> /\ out_nl' = TRUE /\ flushed' = 0
    /\ UNCHANGED <<listing, lnVars, exVars>>

\* The Rewriter's pass over the file, of at most MaxFileLines lines.
ConvertFileLine == dir_pc = "convert" /\ nread < MaxFileLines /\ RwLine

ConvertEnd == dir_pc = "convert" /\ EndOfFile

\* Lines 196-197, 127-140: convert_postgres_to_sqlite has returned and
\* import_to_sqlite is called on the output file.
CallImport ==
    /\ dir_pc = "convert"
    /\ pc = "done"
    /\ dir_pc' = "import"
    /\ calls' = Append(calls, [op |-> "import", file |-> listing[fi]])
    /\ ex_pc' = "import" /\ ex_err' = "none" /\ sql_read' = <<>>
    /\ current_command' = "" /\ command_count' = 0 /\ log' = <<>>
    /\ UNCHANGED <<listing, fi, lnVars, rwVars>>

\* The Executor's pass over the output file: its lines are those written.
ImportLine ==
    /\ dir_pc = "import"
    /\ Len(sql_read) < Len(out)
    /\ ExLine(out[Len(sql_read) + 1])

ImportReturn ==
    /\ dir_pc = "import"
    /\ Len(sql_read) = Len(out)
    /\ ImportEnd

\* Line 200: import_to_sqlite has returned, its locals are gone, and the
\* output file is removed.
RemoveOutput ==
    /\ dir_pc = "import"
    /\ ex_pc = "done"
    /\ dir_pc' = "next"
    /\ calls' = Append(calls, [op |-> "remove", file |-> listing[fi]])
    /\ out' = <<>> /\ out_nl' = TRUE /\ flushed' = 0
    /\ ex_pc' = "idle" /\ ex_err' = "none" /\ sql_read' = <<>>
    /\ current_command' = "" /\ command_count' = 0 /\ log' = <<>>
    /\ UNCHANGED <<listing, fi, lnVars, pc, err, nread, line, line_nl,
                   create_table_statements, alter_table_buffer>>

\* An exception that ended a pass leaves convert_directory too: nothing
\* catches it and the batch halts.
DirRaise ==
    /\ \/ dir_pc = "convert" /\ pc = "crashed"
       \/ dir_pc = "import" /\ ex_pc = "crashed"
    /\ dir_pc' = "crashed"
    /\ UNCHANGED <<listing, fi, calls, lnVars, rwVars, exVars>>

\* The listing is at its end.
DirEnd ==
    /\ dir_pc = "next"
    /\ fi = Len(listing)
    /\ dir_pc' = "done"
    /\ UNCHANGED <<listing, fi, calls, lnVars, rwVars, exVars>>

DirNext ==
    \/ SkipFile
    \/ CallConvert
    \/ ConvertFileLine
    \/ ConvertEnd
    \/ CallImport
    \/ ImportLine
    \/ ImportReturn
    \/ RemoveOutput
    \/ DirRaise
    \/ DirEnd

----------------------------------------------------------------------------
(* The specifications.                                                     *)

\* The Rewriter's pass over every input file of at most MaxLines lines.
Init == RwInit /\ LnIdle /\ ExIdle /\ DirIdle

Next == RwNext

Spec == Init /\ [][Next]_vars

\* The Executor's pass over every SQL file of at most MaxSqlLines lines.
InitImport == ExInit /\ LnIdle /\ RwIdle /\ DirIdle

NextImport == ExNext

SpecImport == InitImport /\ [][NextImport]_vars

\* The substitutions on every line of at most MaxFrags fragments.
InitLine == LnInit /\ RwIdle /\ ExIdle /\ DirIdle

NextLine == Rename \/ Substitute \/ SubstituteAgain

SpecLine == InitLine /\ [][NextLine]_vars

\* convert_directory on every directory of at most MaxFiles names, the files
\* of at most MaxFileLines lines.
InitDirectory == DirInit /\ LnIdle /\ RwIdle /\ ExIdle

NextDirectory == DirNext

SpecDirectory == InitDirectory /\ [][NextDirectory]_vars

----------------------------------------------------------------------------
(* The claims.                                                             *)

\* A step of the Rewriter that reads a line.
ReadsLine == pc = "rewrite" /\ nread' = nread + 1

\* A line the drop rules name, as it stands in the input: it starts with an
\* environment directive or holds a storage option.
IsDroppedKind(l) ==
    \/ StartsWith(l, "SET ")
    \/ StartsWith(l, "SELECT pg_catalog.set_config")
    \/ Contains(l, "WITH (")
    \/ Contains(l, "OIDS=")

\* A step that reads the line which completes an ALTER TABLE statement: the
\* line reaches the ALTER TABLE handling and holds a ";".
CompletesAlter ==
    /\ ReadsLine
    /\ create_table_statements = <<>>
    /\ ~Is[line'].directive /\ ~Is[line'].option /\ ~Is[line'].create
    /\ Is[line'].alter \/ alter_table_buffer # ""
    /\ Is[line'].semicolon

\* The statement that step completes.
CompletedAlter == Joined(alter_table_buffer, Converted[line'])

\* The lines of the output that open the CREATE TABLE block of table name.
BlockStarts(name) ==
    {i \in 1..Len(out) :
        /\ IsCreateTable(out[i]) /\ HasTableName(out[i])
        /\ TableNameOf(out[i]) = name}

\* The lines that close a block opened at line i.
BlockEnds(i) == {j \in (i + 1)..Len(out) : Strip(out[j]) = ");"}

\* The CREATE TABLE block of table name has been written.
BlockEmitted(name) ==
    BlockStarts(name) # {} /\ BlockEnds(Least(BlockStarts(name))) # {}

\* The output with PRIMARY KEY (cols) put in as a line of its own before the
\* line that closes the block of table name, all other lines as they were.
WithPrimaryKey(name, cols) ==
    LET j == Least(BlockEnds(Least(BlockStarts(name))))
    IN  SubSeq(out, 1, j - 1) \o <<"    PRIMARY KEY (" \o cols \o ")">>
        \o SubSeq(out, j, Len(out))

\* C1: when a complete ALTER TABLE t ADD CONSTRAINT .. PRIMARY KEY (cols);
\* is processed after the block of t was written, the run goes on and the
\* block holds its lines in order, PRIMARY KEY (cols) before its one closing
\* line.
C1_PatchBack ==
    [][(/\ CompletesAlter
        /\ AlterMatches(CompletedAlter)
        /\ BlockEmitted(AlterTable(CompletedAlter)))
        => /\ pc' = "rewrite"
           /\ out' = WithPrimaryKey(AlterTable(CompletedAlter),
                                    AlterColumns(CompletedAlter))]_vars

\* C5: neither pass ends in a failure that is not an I/O failure.
C5_OnlyIoFailures == pc # "crashed" /\ ex_pc # "crashed"

\* C9: when a completed ALTER statement is no PRIMARY KEY constraint, or names
\* a table whose CREATE TABLE block is not in the output, the run goes on and
\* the output is left as it was.
C9_LossyAlterDrop ==
    [][(/\ CompletesAlter
        /\ \/ ~AlterMatches(CompletedAlter)
           \/ ~BlockEmitted(AlterTable(CompletedAlter)))
        => /\ pc' = "rewrite"
           /\ out' = out]_vars

\* The commands given to the store, in order.
ExecutedCommands == [i \in 1..Len(log) |-> log[i].cmd]

\* C2: a statement that fails against the store, whatever the failure, never
\* ends the import: the lines after it are still processed.
C2_FailureIsolation ==
    \A i \in 1..Len(log) : log[i].res # "ok" => ex_pc # "crashed"

\* The complete statements of the lines from line i on, acc being the text
\* gathered so far: a statement is the lines that are not skipped up to one
\* that ends with ";", each followed by a blank.
RECURSIVE Statements(_, _, _)
Statements(lines, i, acc) ==
    IF i > Len(lines) THEN <<>>
    ELSE IF IsSkipped(Strip(lines[i])) THEN Statements(lines, i + 1, acc)
    ELSE IF EndsWith(Strip(lines[i]), ";")
         THEN <<acc \o Strip(lines[i]) \o " ">> \o Statements(lines, i + 1, "")
         ELSE Statements(lines, i + 1, acc \o Strip(lines[i]) \o " ")

\* The first line of every statement, and no other line, starts with a
\* leading keyword (inside: a statement has begun and not ended).
RECURSIVE KeywordsLead(_, _, _)
KeywordsLead(lines, i, inside) ==
    IF i > Len(lines) THEN TRUE
    ELSE IF IsSkipped(Strip(lines[i])) THEN KeywordsLead(lines, i + 1, inside)
    ELSE /\ inside <=> ~IsCommandStart(Strip(lines[i]))
         /\ KeywordsLead(lines, i + 1, ~EndsWith(Strip(lines[i]), ";"))

\* C3: when the pass has ended, the store was given each complete statement
\* of the file once, whole and apart from its neighbours, the last one too.
C3_ExactlyOnce ==
    (ex_pc = "done" /\ KeywordsLead(sql_read, 1, FALSE))
        => ExecutedCommands = Statements(sql_read, 1, "")

\* A step of the Executor that reads a line which is not skipped and ends
\* with ";".
ReadsTerminator ==
    /\ ex_pc = "import"
    /\ Len(sql_read') = Len(sql_read) + 1
    /\ ~IsSkipped(Strip(sql_read'[Len(sql_read')]))
    /\ EndsWith(Strip(sql_read'[Len(sql_read')]), ";")

\* C10: the step that reads such a line gives the accumulated statement to
\* the store and leaves the buffer empty.
C10_TerminatorFlush ==
    [][ReadsTerminator
        => /\ current_command' = ""
           /\ Len(log') > Len(log)
           /\ log'[Len(log')].cmd =
                  current_command \o Strip(sql_read'[Len(sql_read')]) \o " "]_vars

\* Whether position i of s lies inside a string literal: an odd number of
\* quotes stand before it, and the quote that closes the literal after it.
InLiteral(s, i) ==
    /\ Cardinality({k \in 1..(i - 1) : At(s, k) = "'"}) % 2 = 1
    /\ \E k \in (i + 1)..Len(s) : At(s, k) = "'"

\* The line with every bare word index outside string literals renamed, and
\* nothing else changed.
RECURSIVE RenamedOutsideLiterals(_, _)
RenamedOutsideLiterals(s, i) ==
    LET hits == {k \in i..Len(s) : BareIndexAt(s, k) /\ ~InLiteral(s, k)}
    IN  IF hits = {} THEN From(s, i)
        ELSE SubSeq(s, i, Least(hits) - 1) \o "_index"
             \o RenamedOutsideLiterals(s, Least(hits) + 5)

\* C4: renaming a line replaces every bare word index by _index and leaves
\* alone an index that is part of a longer identifier or inside a string
\* literal.
C4_RenameBareWordOnly ==
    ln_pc = "renamed" => ln_out = RenamedOutsideLiterals(ln_in, 1)

\* The input lines of a dropped kind.
DroppedKinds == {l \in InputLines : IsDroppedKind(l)}

\* C6: a step that reads a line of a dropped kind writes nothing and leaves
\* the table blocks and the alter-buffer as they were, whatever is open.
C6_DroppedLinesLeaveNoTrace ==
    [][ReadsLine /\ line' \in DroppedKinds
        => /\ out' = out
           /\ create_table_statements' = create_table_statements
           /\ alter_table_buffer' = alter_table_buffer
           /\ pc' = "rewrite"]_vars

\* C6's case: a storage-option line was read while a table block was open.
C6_Witness ==
    /\ nread > 1
    /\ Contains(line, "OIDS=")
    /\ create_table_statements # <<>>

\* A step that reads a line which, converted, starts CREATE INDEX.
ReadsCreateIndex == ReadsLine /\ StartsWith(Converted[line'], "CREATE INDEX")

\* The line just read, as the CREATE INDEX handling writes it.
IndexLineWritten == Replace(Converted[line'], " USING btree", "")

\* C7 as claimed, for a line that ends with a line break: whatever is open, a
\* line that starts CREATE INDEX is written at the step it is read, without
\* " USING btree", an empty line after it, and no buffer takes it.
C7_IndexAlwaysEmitted ==
    [][(ReadsCreateIndex /\ line_nl')
        => /\ out' = out \o <<IndexLineWritten, "">>
           /\ create_table_statements' = create_table_statements
           /\ alter_table_buffer' = alter_table_buffer]_vars

\* The drop rules keep the line just read, no table block is open and the
\* alter-buffer is empty.
NothingOpenNorDropped ==
    /\ create_table_statements = <<>> /\ alter_table_buffer = ""
    /\ ~IsDirective(line') /\ ~HasTableOption(Converted[line'])

\* C7 as amended: a line that starts CREATE INDEX, that the drop rules keep and
\* that is read while no table block is open and the alter-buffer is empty is
\* written at the step it is read, without " USING btree", and no buffer takes
\* it; an empty line follows it when the line ended with a line break.
C7_IndexEmittedWhenNothingOpen ==
    [][(ReadsCreateIndex /\ NothingOpenNorDropped)
        => /\ Len(out') >= Len(out) + 1
           /\ SubSeq(out', 1, Len(out)) = out
           /\ out'[Len(out) + 1] = IndexLineWritten
           /\ ~Contains(out'[Len(out) + 1], " USING btree")
           /\ SubSeq(out', Len(out) + 2, Len(out')) =
                  (IF line_nl' THEN <<"">> ELSE <<>>)
           /\ out_nl'
           /\ create_table_statements' = <<>> /\ alter_table_buffer' = ""
           /\ pc' = "rewrite"]_vars

\* C7's case: a CREATE INDEX line that ended with a line break was just
\* written, its annotation removed, an empty line after it.
C7_Witness ==
    /\ pc = "rewrite" /\ line_nl
    /\ Contains(line, "CREATE INDEX") /\ Contains(line, " USING btree")
    /\ Len(out) >= 2
    /\ out[Len(out)] = ""
    /\ StartsWith(out[Len(out) - 1], "CREATE INDEX")
    /\ ~Contains(out[Len(out) - 1], " USING btree")

\* C8: substituting a line that is already the result of the substitutions
\* gives that line again.
C8_SubstitutionsIdempotent == ln_pc = "twice" => ln_out = ln_prev

\* C8's case: a line in which the first substitution changed a type and
\* renamed an index has been substituted again.
C8_Witness ==
    /\ ln_pc = "twice"
    /\ Contains(ln_in, "int")
    /\ Contains(ln_prev, "INTEGER") /\ Contains(ln_prev, "_index")

----------------------------------------------------------------------------
(* The claims on the two flushes of the Executor.                          *)

\* A step of the Executor that reads a line.
ReadsSqlLine == ex_pc = "import" /\ Len(sql_read') = Len(sql_read) + 1

\* The line that step reads, trimmed (line 143).
SqlLineRead == Strip(sql_read'[Len(sql_read')])

\* A step on which both conditions are met: the line starts with a leading
\* keyword while the buffer holds a command, and it ends with ";".
ReadsDualTrigger ==
    /\ ReadsSqlLine
    /\ current_command # ""
    /\ IsCommandStart(SqlLineRead)
    /\ EndsWith(SqlLineRead, ";")

----------------------------------------------------------------------------
(* The claims on the table-definition blocks.                              *)

\* A step that reads a line the drop rules keep.
ReadsKeptLine == ReadsLine /\ ~Is[line'].directive /\ ~Is[line'].option

\* A step that reads a kept line while a table block is open.
ReadsInBlock == ReadsKeptLine /\ create_table_statements # <<>>

\* The lines of the block opened last.
LastBlock == create_table_statements[Len(create_table_statements)].lines

\* The step writes the block opened last, the line read after it, and removes
\* its entry.
ClosesLastBlock ==
    /\ out' = out \o Append(LastBlock, Converted[line'])
    /\ create_table_statements' = DelLast(create_table_statements)

\* The step writes nothing and appends the line read to the block opened last.
JoinsLastBlock ==
    /\ out' = out
    /\ create_table_statements' =
           AppendToLast(create_table_statements, Converted[line'])

C13_SinglePendingBlock == Len(create_table_statements) <= 1

\* The line read last was kept and opened a table block.
JustOpened ==
    /\ nread > 0
    /\ ~Is[line].directive /\ ~Is[line].option
    /\ Is[line].create /\ Is[line].named

\* The table that line names, and the lines buffered for it.
OpenedName == TableNameOf(Converted[line])

OpenedBlock ==
    create_table_statements[KeyIndex(create_table_statements, OpenedName)].lines

\* C14: the kept line read right after a CREATE TABLE line, when it opens no
\* block itself, goes to the block of that CREATE TABLE line, whatever other
\* blocks are open: a line that starts with ");" closes it, the block being
\* written and removed, and any other line is appended to it.
C14_LastOpenedWins ==
    [][(/\ JustOpened
        /\ ReadsInBlock
        /\ ~StartsWith(Strip(Converted[line']), "CREATE TABLE"))
        => IF StartsWith(Strip(Converted[line']), ");")
           THEN /\ out' = out \o Append(OpenedBlock, Converted[line'])
                /\ KeyIndex(create_table_statements', OpenedName) = 0
           ELSE /\ out' = out
                /\ KeyIndex(create_table_statements', OpenedName) # 0
                /\ create_table_statements'
                       [KeyIndex(create_table_statements', OpenedName)].lines
                     = Append(OpenedBlock, Converted[line'])]_vars

----------------------------------------------------------------------------
(* The claims on the alter-buffer.                                         *)

\* The line read takes no part in the output, opens no block and joins the
\* alter-buffer, trimmed and after a blank; when it holds a ";" the joined
\* statement is processed at once, and a run that goes on has written
\* nothing.
AbsorbedByAlterBuffer ==
    /\ create_table_statements' = create_table_statements
    /\ IF Contains(Converted[line'], ";")
       THEN pc' = "rewrite" => out' = out
       ELSE /\ alter_table_buffer' =
                   alter_table_buffer \o " " \o Strip(Converted[line'])
            /\ out' = out
            /\ pc' = "rewrite"

\* C15 as claimed: while the alter-buffer is non-empty every kept line,
\* whatever its content, is absorbed by the alter-buffer.
C15_AlterAbsorbsEveryLine ==
    [][(ReadsKeptLine /\ alter_table_buffer # "")
        => AbsorbedByAlterBuffer]_vars

\* C15 as amended: while the alter-buffer is non-empty and no table block is
\* open, every kept line that starts no CREATE TABLE statement, a CREATE INDEX
\* line too, is absorbed by the alter-buffer.
C15_AlterAbsorbsOtherLines ==
    [][(/\ ReadsKeptLine
        /\ alter_table_buffer # ""
        /\ create_table_statements = <<>>
        /\ ~StartsWith(Strip(Converted[line']), "CREATE TABLE"))
        => AbsorbedByAlterBuffer]_vars

\* C15's case: a line that starts no ALTER TABLE statement, read after the
\* first line of one, is in the alter-buffer, trimmed and after a blank, and
\* nothing was written.
C15_Witness ==
    /\ pc = "rewrite" /\ nread = 2
    /\ StartsWith(alter_table_buffer, "ALTER TABLE")
    /\ ~StartsWith(Strip(line), "ALTER TABLE")
    /\ Strip(Converted[line]) # Converted[line]
    /\ EndsWith(alter_table_buffer, " " \o Strip(Converted[line]))
    /\ out = <<>> /\ create_table_statements = <<>>

\* C16: the step that reads the line which completes an ALTER TABLE statement
\* leaves the alter-buffer empty for the next line, whether the statement is
\* no PRIMARY KEY constraint, names a table that is not in the output, or
\* names one that is.
C16_AlterBufferReset ==
    [][CompletesAlter => (pc' = "rewrite" /\ alter_table_buffer' = "")]_vars

----------------------------------------------------------------------------
(* The precedence of the table block over the alter-buffer.                *)

\* C18: a step taken while a table block is open leaves the alter-buffer as
\* it was; it changes the output only when it closes the block, by a kept
\* line that starts with ");"; and a kept line that starts ALTER TABLE is
\* appended to the block opened last.
C18_TableBlockPrecedence ==
    [][(pc = "rewrite" /\ create_table_statements # <<>>)
        => /\ alter_table_buffer' = alter_table_buffer
           /\ (out' # out)
                 => (/\ ReadsKeptLine
                     /\ StartsWith(Strip(Converted[line']), ");")
                     /\ ClosesLastBlock)
           /\ (ReadsKeptLine /\ StartsWith(Strip(Converted[line']), "ALTER TABLE"))
                 => JoinsLastBlock]_vars

\* C18's case: the alter-buffer holds the start of a statement, a table block
\* is open and the ALTER TABLE line read after its CREATE TABLE line is in
\* the block.
C18_Witness ==
    /\ pc = "rewrite"
    /\ alter_table_buffer # ""
    /\ Len(create_table_statements) = 1
    /\ Len(create_table_statements[1].lines) = 2
    /\ StartsWith(Strip(create_table_statements[1].lines[2]), "ALTER TABLE")
    /\ StartsWith(line, "ALTER TABLE")
    /\ out = <<>>

----------------------------------------------------------------------------
(* The claims on convert_directory.                                        *)

\* The calls a complete batch makes for the names from the i-th on: for every
\* name that ends with .sql one Rewriter pass, then one Executor pass, then
\* the removal of the output, file after file in the order of the listing.
RECURSIVE ExpectedCalls(_, _)
ExpectedCalls(ls, i) ==
    IF i > Len(ls) THEN <<>>
    ELSE (IF EndsWith(ls[i], ".sql")
          THEN <<[op |-> "convert", file |-> ls[i]],
                 [op |-> "import", file |-> ls[i]],
                 [op |-> "remove", file |-> ls[i]]>>
          ELSE <<>>) \o ExpectedCalls(ls, i + 1)

IsPrefix(a, b) == Len(a) <= Len(b) /\ SubSeq(b, 1, Len(a)) = a

\* C17: the calls made so far are the first of those of a complete batch, so
\* the passes come one file at a time, each file's Executor pass after its
\* Rewriter pass and neither twice; a batch that ends has made them all; the
\* Executor works only on the output of a Rewriter pass that has finished;
\* and a Rewriter pass starts with no table block open and the alter-buffer
\* empty.
C17_PassOrdering ==
    /\ IsPrefix(calls, ExpectedCalls(listing, 1))
    /\ (dir_pc = "done") => (calls = ExpectedCalls(listing, 1))
    /\ (ex_pc # "idle") => (dir_pc \in {"import", "crashed"} /\ pc = "done")
    /\ (dir_pc = "convert" /\ nread = 0)
          => (create_table_statements = <<>> /\ alter_table_buffer = "")

\* C17's case: the batch has ended after two files, each with its Rewriter
\* pass, its Executor pass and the removal of its output, in that order.
C17_Witness ==
    /\ dir_pc = "done"
    /\ Len(calls) = 6
    /\ calls[4].op = "convert" /\ calls[5].op = "import"
    /\ calls[4].file # calls[1].file

====
